---- MODULE Spec2Model ----
(***************************************************************************)
(* Financial document pipeline of sales/models.py: sequenced document      *)
(* numbering (Contract / Invoice), proposal and invoice aggregation, the   *)
(* invoice item lock and the payment ledger.                               *)
(*                                                                         *)
(* Money is counted in cents (Decimal with 2 places), tax rates in         *)
(* hundredths of a percent.  A document number is a record                 *)
(* [prefix, digits]: the text "CTR007" is [prefix |-> "CTR",               *)
(* digits |-> <<0,0,7>>]; the empty text is [prefix |-> "", digits |-> <<>>].*)
(***************************************************************************)
EXTENDS Integers, Sequences, FiniteSets, TLC

VARIABLES
    \* ---- numbering (Contract.number / Invoice.number) ----
    docType,       \* the document type whose table the behaviour is about
    stored,        \* the rows of that table, [pk, number]
    nextPk,        \* its next auto-increment primary key
    wpc,           \* per writer: position inside save()
    wnum,          \* per writer: self.number of the instance being saved
    wtries,        \* per writer: iterations of the retry loop that conflicted
    reqs,          \* number of requests (creations, saves, deletions) started so far
    maxAssigned,   \* greatest suffix ever stored in the table (history)
    everDeleted,   \* a row of the table was deleted (history)
    numOp,         \* the save() of a stored document that has just ended, if any
    \* ---- invoices, their items and payments ----
    invoices,      \* invoice id -> [deal, status, subtotal, tax, total, amount_paid]
    iitems,        \* the InvoiceItem rows
    payments,      \* the Payment rows, [id, invoice, amount]
    contracts,     \* contract id -> [deal]
    citems,        \* the ContractItem rows
    proposals,     \* proposal id -> [subtotal, discount, tax, total]
    pitems,        \* the ProposalItem rows
    lastOp,        \* the last pipeline operation: [op, inv, ok] (history)
    \* ---- payment saves running in concurrent transactions ----
    ptx,           \* per writer: the save() or delete() in flight and what it holds
    \* ---- the catalog the proposal and contract items refer to ----
    catalog,       \* [services, packages]: the Service and Package rows
    \* ---- the database ----
    rounding       \* how a Decimal with more than 2 places is stored in a 2-place column

numVars == <<docType, stored, nextPk, wpc, wnum, wtries, reqs, maxAssigned,
             everDeleted, numOp>>

propVars == <<proposals, pitems, catalog>>

pipeVars == <<invoices, iitems, payments, contracts, citems, proposals, pitems, lastOp, ptx,
              catalog, rounding>>

vars == <<docType, stored, nextPk, wpc, wnum, wtries, reqs, maxAssigned,
          everDeleted, numOp, invoices, iitems, payments, contracts, citems, proposals,
          pitems, lastOp, ptx, catalog, rounding>>

-----------------------------------------------------------------------------
(* Bounds of the model *)

NumWriters == 2
MaxRequests == 3
StartSuffix == 998
MaxItems == 2
MaxPayments == 2
MaxProposalItems == 2
MaxContractItems == 2
MaxInvoices == 2

-----------------------------------------------------------------------------
(* Sequenced-document numbering *)

Types == {"Contract", "Invoice"}
Writers == 1..NumWriters

CODE_PAD == 3
MaxAttemptsMut == 10 + 1
MaxAttempts == 10

CODE_PREFIX(t) == IF t = "Contract" THEN "CTR" ELSE "INV"

EmptyNumber == [prefix |-> "", digits |-> <<>>]

\* the decimal digits of n, most significant first (format spec "d")
RECURSIVE Digits(_)
Digits(n) == IF n < 10 THEN <<n>> ELSE Append(Digits(n \div 10), n % 10)

RECURSIVE ZeroPad(_, _)
ZeroPad(ds, pad) == IF Len(ds) >= pad THEN ds ELSE ZeroPad(<<0>> \o ds, pad)

\* f"{prefix}{n:0{pad}d}"
FormatNumber(prefix, n, pad) == [prefix |-> prefix, digits |-> ZeroPad(Digits(n), pad)]

\* int(suffix); ValueError (here: the empty text) gives 0
RECURSIVE DigitsValue(_)
DigitsValue(ds) ==
    IF ds = <<>> THEN 0 ELSE 10 * DigitsValue(SubSeq(ds, 1, Len(ds) - 1)) + ds[Len(ds)]

ParseSuffix(ds) == IF ds = <<>> THEN 0 ELSE DigitsValue(ds)

\* text order of two digit strings, as ORDER BY number compares them
RECURSIVE LexLess(_, _)
LexLess(a, b) ==
    IF a = <<>> THEN b # <<>>
    ELSE IF b = <<>> THEN FALSE
    ELSE IF a[1] # b[1] THEN a[1] < b[1]
    ELSE LexLess(Tail(a), Tail(b))

\* filter(number__startswith=prefix).order_by("-number").first()
LastByNumber(prefix, rows) ==
    LET cand == {r \in rows : r.number.prefix = prefix}
    IN  IF cand = {} THEN {}
        ELSE {r \in cand : \A q \in cand : ~LexLess(r.number.digits, q.number.digits)}

GenerateNextNumberSkip(t, rows) ==
    LET last   == LastByNumber(CODE_PREFIX(t), rows)
        number == IF last = {} THEN 0
                  ELSE ParseSuffix((CHOOSE r \in last : TRUE).number.digits)
    IN  FormatNumber(CODE_PREFIX(t), number + 2, CODE_PAD)
GenerateNextNumberStale(t, rows) == FormatNumber(CODE_PREFIX(t), 1, CODE_PAD)
GenerateNextNumber(t, rows) ==
    LET last   == LastByNumber(CODE_PREFIX(t), rows)
        number == IF last = {} THEN 0
                  ELSE ParseSuffix((CHOOSE r \in last : TRUE).number.digits)
    IN  FormatNumber(CODE_PREFIX(t), number + 1, CODE_PAD)

\* the unique=True constraint of the number column, for the row pk
UniqueViolationMut(rows, pk, num) == FALSE
UniqueViolation(rows, pk, num) == \E r \in rows : r.pk # pk /\ r.number = num

\* save() of an existing row: the number is reset to the stored one
ImmutableNumberMut(old, mem) == mem
ImmutableNumber(old, mem) == IF old # EmptyNumber /\ mem # old THEN old ELSE mem

NoNumOp == [kind |-> "none", pk |-> 0, mem |-> EmptyNumber]

Max(a, b) == IF a >= b THEN a ELSE b

\* the table after n documents were created one after the other and all but
\* the last were deleted again
RowsAfter(t, n) ==
    IF n = 0 THEN {} ELSE {[pk |-> n, number |-> FormatNumber(CODE_PREFIX(t), n, CODE_PAD)]}

\* Contract and Invoice keep separate tables and share no state: a behaviour
\* follows the table of one of them
NumRows ==
    \E n \in {0, StartSuffix}, t \in Types :
        /\ docType = t
        /\ stored = RowsAfter(t, n)
        /\ nextPk = n + 1
        /\ maxAssigned = n
        /\ everDeleted = (n > 1)
        /\ wpc = [w \in Writers |-> "idle"]
        /\ wnum = [w \in Writers |-> EmptyNumber]
        /\ wtries = [w \in Writers |-> 0]
        /\ reqs = 0
        /\ numOp = NoNumOp

NoOp == [op |-> "none", inv |-> 0, ok |-> TRUE]

\* no invoice, contract, item or payment exists
\* the catalog rows the items refer to (services.Service, services.Package)
ServiceCatalog == <<[name |-> "Photography", base_price |-> 10000],
                    [name |-> "other", base_price |-> 0]>>
PackageCatalog == <<[name |-> "Wedding", total_price |-> 5000]>>
InitialCatalog == [services |-> ServiceCatalog, packages |-> PackageCatalog]

\* no save() or delete() in flight
NoTx == [pc |-> "idle", op |-> "none", invoice |-> 0, amount |-> 0, id |-> 0,
         already_paid |-> 0, total |-> 0, amount_paid |-> 0, status |-> "draft"]
TxIdle == [w \in Writers |-> NoTx]

PipeEmpty ==
    /\ ptx = TxIdle
    /\ catalog = InitialCatalog
    /\ rounding = "half_even"
    /\ invoices = <<>>
    /\ iitems = {}
    /\ payments = {}
    /\ contracts = <<>>
    /\ citems = {}
    /\ proposals = <<>>
    /\ pitems = {}
    /\ lastOp = NoOp

NumInit == NumRows /\ PipeEmpty

\* save() of a new document: self.pk is None and self.number is ""
BeginSave(w) ==
    /\ wpc[w] = "idle"
    /\ reqs < MaxRequests
    /\ reqs' = reqs + 1
    /\ wpc' = [wpc EXCEPT ![w] = "gen"]
    /\ wnum' = [wnum EXCEPT ![w] = EmptyNumber]
    /\ wtries' = [wtries EXCEPT ![w] = 0]
    /\ numOp' = NoNumOp
    /\ UNCHANGED <<docType, stored, nextPk, maxAssigned, everDeleted>>
    /\ UNCHANGED pipeVars

\* self.number = self._generate_next_number()
Generate(w) ==
    /\ wpc[w] = "gen"
    /\ wnum' = [wnum EXCEPT ![w] = GenerateNextNumber(docType, stored)]
    /\ wpc' = [wpc EXCEPT ![w] = "ins"]
    /\ numOp' = NoNumOp
    /\ UNCHANGED <<docType, stored, nextPk, wtries, reqs, maxAssigned, everDeleted>>
    /\ UNCHANGED pipeVars

\* with transaction.atomic(): return super().save()   -- the insert commits
InsertOk(w) ==
    /\ wpc[w] = "ins"
    /\ ~UniqueViolation(stored, nextPk, wnum[w])
    /\ stored' = stored \cup {[pk |-> nextPk, number |-> wnum[w]]}
    /\ nextPk' = nextPk + 1
    /\ maxAssigned' = Max(maxAssigned, ParseSuffix(wnum[w].digits))
    /\ wpc' = [wpc EXCEPT ![w] = "done"]
    /\ numOp' = NoNumOp
    /\ UNCHANGED <<docType, wnum, wtries, reqs, everDeleted>>
    /\ UNCHANGED pipeVars

\* except IntegrityError: self.number = ""; continue   -- and, when the loop
\* is exhausted, raise IntegrityError("Could not generate unique ... number")
InsertConflict(w) ==
    /\ wpc[w] = "ins"
    /\ UniqueViolation(stored, nextPk, wnum[w])
    /\ wnum' = [wnum EXCEPT ![w] = EmptyNumber]
    /\ wtries' = [wtries EXCEPT ![w] = @ + 1]
    /\ wpc' = [wpc EXCEPT ![w] = IF wtries[w] + 1 < MaxAttempts THEN "gen" ELSE "failed"]
    /\ numOp' = NoNumOp
    /\ UNCHANGED <<docType, stored, nextPk, reqs, maxAssigned, everDeleted>>
    /\ UNCHANGED pipeVars

\* the request ends; the writer may serve another one
Return(w) ==
    /\ wpc[w] \in {"done", "failed"}
    /\ wpc' = [wpc EXCEPT ![w] = "idle"]
    /\ wnum' = [wnum EXCEPT ![w] = EmptyNumber]
    /\ wtries' = [wtries EXCEPT ![w] = 0]
    /\ numOp' = NoNumOp
    /\ UNCHANGED <<docType, stored, nextPk, reqs, maxAssigned, everDeleted>>
    /\ UNCHANGED pipeVars

\* deletion of a stored document (admin, or cascade from its Deal)
DeleteDocument(r) ==
    /\ r \in stored
    /\ reqs < MaxRequests
    /\ reqs' = reqs + 1
    /\ stored' = stored \ {r}
    /\ everDeleted' = TRUE
    /\ numOp' = NoNumOp
    /\ UNCHANGED <<docType, nextPk, wpc, wnum, wtries, maxAssigned>>
    /\ UNCHANGED pipeVars

NumNext ==
    \/ \E w \in Writers : BeginSave(w)
    \/ \E w \in Writers : Generate(w)
    \/ \E w \in Writers : InsertOk(w)
    \/ \E w \in Writers : InsertConflict(w)
    \/ \E w \in Writers : Return(w)
    \/ \E r \in stored : DeleteDocument(r)

SpecNum == NumInit /\ [][NumNext]_vars

-----------------------------------------------------------------------------
(* As many concurrent creations as the retry loop has iterations.  One     *)
(* writer runs save() step by step, once; the other creators are followed  *)
(* only through the rows they insert.                                      *)

\* the writer whose save() is followed
Followed == {w \in Writers : \A v \in Writers : w <= v}

\* the creators beside it
OtherCreators == MaxAttempts - 1

\* rows stored by a creator that is not followed (the table starts empty
\* and nothing is deleted)
InsertedByOthers == Cardinality(stored) - Cardinality({w \in Writers : wpc[w] = "done"})

\* the successful iteration of the save() of another creator: the number
\* generated from the rows stored now is inserted (its earlier, conflicting
\* iterations change no row)
OtherInsert ==
    LET num == GenerateNextNumber(docType, stored) IN
    /\ InsertedByOthers < OtherCreators
    /\ ~UniqueViolation(stored, nextPk, num)
    /\ stored' = stored \cup {[pk |-> nextPk, number |-> num]}
    /\ nextPk' = nextPk + 1
    /\ maxAssigned' = Max(maxAssigned, ParseSuffix(num.digits))
    /\ numOp' = NoNumOp
    /\ UNCHANGED <<docType, wpc, wnum, wtries, reqs, everDeleted>>
    /\ UNCHANGED pipeVars

CrowdInit == NumInit /\ stored = {}

CrowdNext ==
    \/ \E w \in Followed : BeginSave(w)
    \/ \E w \in Followed : Generate(w)
    \/ \E w \in Followed : InsertOk(w)
    \/ \E w \in Followed : InsertConflict(w)
    \/ OtherInsert

\* a save() that has started goes on: the loop has no wait in it
CrowdFair ==
    \A w \in Followed : WF_vars(Generate(w) \/ InsertOk(w) \/ InsertConflict(w))

SpecCrowd == CrowdInit /\ [][CrowdNext]_vars /\ CrowdFair

-----------------------------------------------------------------------------
(* The same operations, each request run to completion before the next *)

\* the retry loop of save() run alone: the number that ends up inserted, or
\* EmptyNumber when every one of the remaining iterations conflicted
RECURSIVE SaveLoop(_, _, _, _)
SaveLoop(t, rows, pk, left) ==
    IF left = 0 THEN EmptyNumber
    ELSE LET num == GenerateNextNumber(t, rows)
         IN  IF UniqueViolation(rows, pk, num) THEN SaveLoop(t, rows, pk, left - 1)
             ELSE num

\* save() of a new document
CreateDocument ==
    LET num == SaveLoop(docType, stored, nextPk, MaxAttempts) IN
    /\ reqs < MaxRequests
    /\ reqs' = reqs + 1
    /\ stored' = IF num = EmptyNumber THEN stored
                 ELSE stored \cup {[pk |-> nextPk, number |-> num]}
    /\ nextPk' = IF num = EmptyNumber THEN nextPk ELSE nextPk + 1
    /\ maxAssigned' = Max(maxAssigned, ParseSuffix(num.digits))
    /\ numOp' = NoNumOp
    /\ UNCHANGED <<docType, wpc, wnum, wtries, everDeleted>>
    /\ UNCHANGED pipeVars

\* the values the number attribute of a loaded instance may hold at save()
MemNumbers ==
    {EmptyNumber, GenerateNextNumber(docType, stored)} \cup {q.number : q \in stored}

\* rows after super().save() of the existing row r with number num
UpdateNumber(rows, r, num) ==
    IF UniqueViolation(rows, r.pk, num) THEN rows
    ELSE (rows \ {r}) \cup {[pk |-> r.pk, number |-> num]}

\* save() of a stored document (self.pk set) whose number attribute holds mem
SaveExisting(r, mem) ==
    LET num   == ImmutableNumber(r.number, mem)
        fresh == SaveLoop(docType, stored, r.pk, MaxAttempts)
        rows  == IF num # EmptyNumber THEN UpdateNumber(stored, r, num)
                 ELSE IF fresh # EmptyNumber THEN UpdateNumber(stored, r, fresh)
                 ELSE stored
    IN
    /\ r \in stored
    /\ mem \in MemNumbers
    /\ reqs < MaxRequests
    /\ reqs' = reqs + 1
    /\ stored' = rows
    /\ maxAssigned' = IF rows = stored THEN maxAssigned
                      ELSE Max(maxAssigned,
                               ParseSuffix((CHOOSE q \in rows : q.pk = r.pk).number.digits))
    /\ numOp' = [kind |-> "resave", pk |-> r.pk, mem |-> mem]
    /\ UNCHANGED <<docType, nextPk, wpc, wnum, wtries, everDeleted>>
    /\ UNCHANGED pipeVars

DocNext ==
    \/ CreateDocument
    \/ \E r \in stored : \E mem \in MemNumbers : SaveExisting(r, mem)
    \/ \E r \in stored : DeleteDocument(r)

SpecDoc == NumInit /\ [][DocNext]_vars

-----------------------------------------------------------------------------
(* Claims about the numbering *)

WellFormedNumber(num) ==
    /\ num.prefix = CODE_PREFIX(docType)
    /\ Len(num.digits) >= 3
    /\ \A i \in 1..Len(num.digits) : num.digits[i] \in 0..9

\* C2: under concurrent creations no two stored records of a type hold the
\* same number, and every number the generator handed out (stored, or held by
\* a writer about to insert it) is the type's prefix followed by at least 3
\* decimal digits.
C2_UniqueWellFormedNumbers ==
    /\ \A r1 \in stored : \A r2 \in stored : r1.number = r2.number => r1.pk = r2.pk
    /\ \A r \in stored : WellFormedNumber(r.number)
    /\ \A w \in Writers : wpc[w] \in {"ins", "done"} => WellFormedNumber(wnum[w])

\* two writers raced from an empty table: one conflicted, retried, and both
\* documents are stored
C2_Witness ==
    \E w1 \in Writers : \E w2 \in Writers :
        /\ w1 # w2
        /\ wpc[w1] = "done" /\ wpc[w2] = "done"
        /\ wtries[w2] >= 1
        /\ maxAssigned = 2
        /\ Cardinality(stored) = 2

\* C6: a save of a stored document whose number is non-empty leaves the
\* stored number as it was, whatever the number attribute held in memory
\* (the empty text, another document's number or an unused number).
C6_NumberImmutable ==
    [][\A r \in stored : r.number # EmptyNumber =>
          \A q \in stored' : q.pk = r.pk => q.number = r.number]_vars

\* a stored document was saved with an unused number in memory and kept its own
C6_Witness ==
    /\ numOp.kind = "resave"
    /\ numOp.mem # EmptyNumber
    /\ numOp.mem \notin {q.number : q \in stored}
    /\ \E r \in stored : r.pk = numOp.pk /\ r.number # EmptyNumber

\* C7: a save of a new document makes at most 10 insert attempts; a conflict
\* clears the number and changes no row, the next number is computed from the
\* rows stored when it is generated, and the 10th conflict ends the save in
\* failure with the table unchanged.
C7_BoundedRetry ==
    [][\A w \in Writers :
          /\ wtries'[w] <= 10
          /\ (wpc'[w] \in {"gen", "ins"} => wtries'[w] < 10)
          /\ (wpc[w] = "ins" /\ wpc'[w] \in {"gen", "failed"} =>
                 /\ wnum'[w] = EmptyNumber
                 /\ stored' = stored
                 /\ wtries'[w] = wtries[w] + 1
                 /\ (wpc'[w] = "failed" <=> wtries'[w] = 10))
          /\ (wpc[w] = "gen" /\ wpc'[w] = "ins" =>
                 wnum'[w] = GenerateNextNumber(docType, stored))
          /\ (wpc[w] # "failed" /\ wpc'[w] = "failed" => stored' = stored)]_vars

\* a save gave up after its 10th conflict
C7_Witness == \E w \in Writers : wpc[w] = "failed" /\ wtries[w] = 10 /\ wnum[w] = EmptyNumber

\* C23: when 10 creators (the number of iterations of the retry loop) create
\* documents of one type concurrently, within the 3-digit pad and with no
\* save abandoned half-way, no save gives up, every conflict of a writer is
\* matched by a row another creator stored, and every save that started ends
\* with its document stored.
C23_EveryCreationSucceeds ==
    /\ [](\A w \in Writers :
             /\ wpc[w] # "failed"
             /\ wtries[w] <= Cardinality(stored) - (IF wpc[w] = "done" THEN 1 ELSE 0))
    /\ \A w \in Writers : (wpc[w] \in {"gen", "ins"}) ~> (wpc[w] = "done")

\* a writer stored its document at the 10th iteration, after conflicting with
\* each of the 9 other creators
C23_Witness ==
    \E w \in Writers :
        /\ wpc[w] = "done"
        /\ wtries[w] = MaxAttempts - 1
        /\ Cardinality(stored) = MaxAttempts

\* C24: as long as no document of the type was deleted and the suffixes fit
\* the 3-digit pad, the stored numbers are exactly prefix001 ... prefixN for
\* the N stored documents, in every state of concurrent creations with
\* conflicts and retries.
C24_NoGaps ==
    (~everDeleted /\ maxAssigned < 1000) =>
        {r.number : r \in stored} =
            {FormatNumber(CODE_PREFIX(docType), k, CODE_PAD) : k \in 1..Cardinality(stored)}

\* three documents stored with no deletion, one of them by a save that
\* conflicted first
C24_Witness ==
    /\ ~everDeleted
    /\ Cardinality(stored) = 3
    /\ \E w \in Writers : wpc[w] = "done" /\ wtries[w] >= 1

\* C8: every newly stored number has a suffix greater than the suffix of
\* every number assigned to a document of the type before it, for every
\* history of creations and deletions.
C8_StrictlyIncreasing ==
    [][\A r \in stored' \ stored : ParseSuffix(r.number.digits) > maxAssigned]_vars

-----------------------------------------------------------------------------
(* Invoices, invoice items and payments: each request runs to completion *)

InvoiceStatus == {"draft", "issued", "partially_paid", "paid", "overdue", "cancelled"}

\* the values the forms and the admin inlines are fed with
Descriptions == {"Shoot"}
Quantities == {3}
UnitPrices == {4000}
TaxRates == {0, 500}
PayAmounts == {-6000, 6000, 12000}
FormStatuses == {"draft", "issued", "paid"}
FormTotals == {1000}

RECURSIVE SumField(_, _)
SumField(rows, f) ==
    IF rows = {} THEN 0
    ELSE LET x == CHOOSE y \in rows : TRUE IN x[f] + SumField(rows \ {x}, f)

\* n / d (n >= 0, d > 0) rounded to a whole cent, ties to even: the
\* quantize() that stores a Decimal in a column with 2 decimal places
RoundHalfEven(n, d) ==
    LET q == n \div d
        r == n % d
    IN  IF 2 * r < d THEN q
        ELSE IF 2 * r > d THEN q + 1
        ELSE IF q % 2 = 0 THEN q ELSE q + 1

\* n / d (n >= 0, d > 0) rounded to a whole cent, ties away from zero
RoundHalfUp(n, d) ==
    LET q == n \div d
        r == n % d
    IN  IF 2 * r < d THEN q ELSE q + 1

\* DecimalField.get_db_prep_save(): the value goes to the column through
\* the backend's adapt_decimalfield_value.  SQLite, MySQL and Oracle format
\* it with quantize() in the default context (ties to even); PostgreSQL gets
\* the Decimal as it is and its numeric(12, 2) column rounds ties away from
\* zero
Roundings == {"half_even", "half_up"}
Quantize(n, d) == IF rounding = "half_even" THEN RoundHalfEven(n, d) ELSE RoundHalfUp(n, d)

\* smallest id of 1..cap no row of rows uses; 0 when the table is full
FreeId(rows, cap) ==
    LET free == {k \in 1..cap : \A x \in rows : x.id # k}
    IN  IF free = {} THEN 0 ELSE CHOOSE k \in free : \A j \in free : k <= j

ItemsOf(rows, i) == {x \in rows : x.invoice = i}

\* Invoice.balance
Balance(inv) == inv.total - inv.amount_paid

\* Invoice.recalculate_totals(save=True)
InvoiceRecalculateTotalsAccum(inv, its) ==
    [inv EXCEPT !.subtotal = SumField(its, "line_subtotal"),
                !.tax = SumField(its, "tax_amount"),
                !.total = inv.total + SumField(its, "line_total")]
InvoiceRecalculateTotalsMut(inv, its) ==
    [inv EXCEPT !.subtotal = SumField(its, "line_subtotal"),
                !.tax = SumField(its, "tax_amount"),
                !.total = SumField(its, "line_subtotal")]
InvoiceRecalculateTotals(inv, its) ==
    [inv EXCEPT !.subtotal = SumField(its, "line_subtotal"),
                !.tax = SumField(its, "tax_amount"),
                !.total = SumField(its, "line_total")]

\* InvoiceItem.clean(): the item lock
InvoiceItemLockedMut(inv) == FALSE
InvoiceItemLocked(inv) == inv.status # "draft"

\* InvoiceItem.full_clean(): clean() and the field validation (description
\* must not be blank)
InvoiceItemFullCleanOk(inv, desc) == ~InvoiceItemLocked(inv) /\ desc # ""

\* the row InvoiceItem.save() writes
InvoiceItemRow(id, i, desc, qty, unit, rate) ==
    LET base_total == unit * qty
    IN  [id |-> id, invoice |-> i, description |-> desc, quantity |-> qty,
         unit_price |-> unit, tax_rate |-> rate,
         line_subtotal |-> base_total,
         tax_amount |-> Quantize(base_total * rate, 10000),
         line_total |-> Quantize(base_total * 10000 + base_total * rate, 10000)]

\* InvoiceItem.save() of a new row (old = {}) or of the stored row in old
InvoiceItemSave(i, old, desc, qty, unit, rate) ==
    LET id   == IF old = {} THEN FreeId(iitems, MaxItems) ELSE (CHOOSE x \in old : TRUE).id
        ok   == InvoiceItemFullCleanOk(invoices[i], desc)
        rows == (iitems \ old) \cup {InvoiceItemRow(id, i, desc, qty, unit, rate)}
    IN
    /\ id # 0
    /\ lastOp' = [op |-> "item_save", inv |-> i, ok |-> ok]
    /\ IF ok
       THEN /\ iitems' = rows
            /\ invoices' = [invoices EXCEPT ![i] = InvoiceRecalculateTotals(@, ItemsOf(rows, i))]
       ELSE UNCHANGED <<iitems, invoices>>
    /\ UNCHANGED <<payments, contracts, citems>>
    /\ UNCHANGED <<numVars, rounding, propVars, ptx>>

\* InvoiceItem.delete()
InvoiceItemDelete(x) ==
    LET i    == x.invoice
        ok   == ~InvoiceItemLocked(invoices[i])
        rows == iitems \ {x}
    IN
    /\ x \in iitems
    /\ lastOp' = [op |-> "item_delete", inv |-> i, ok |-> ok]
    /\ IF ok
       THEN /\ iitems' = rows
            /\ invoices' = [invoices EXCEPT ![i] = InvoiceRecalculateTotals(@, ItemsOf(rows, i))]
       ELSE UNCHANGED <<iitems, invoices>>
    /\ UNCHANGED <<payments, contracts, citems>>
    /\ UNCHANGED <<numVars, rounding, propVars, ptx>>

\* the row InvoiceItem.objects.create() writes for the contract item c:
\* its description, quantity and unit_price, and a tax_rate of 0
InvoiceItemFromContractMut(id, i, c) ==
    InvoiceItemRow(id, i, c.description, c.quantity, c.unit_price, 500)
InvoiceItemFromContract(id, i, c) ==
    InvoiceItemRow(id, i, c.description, c.quantity, c.unit_price, 0)

\* the rows InvoiceItem.objects.create() adds for the contract items cs, one
\* after the other
RECURSIVE CopiedItems(_, _, _)
CopiedItems(rows, i, cs) ==
    IF cs = {} THEN rows
    ELSE LET c == CHOOSE y \in cs : \A z \in cs : y.id <= z.id
         IN  CopiedItems(rows \cup {InvoiceItemFromContract(FreeId(rows, MaxItems), i, c)},
                         i, cs \ {c})

\* the deal check of populate_from_contract (deal 0: not set)
DealMatchesMut(inv, con) == TRUE
DealMatches(inv, con) == ~(con.deal # inv.deal /\ inv.deal # 0)

\* Invoice.populate_from_contract(contract, clear_existing)
PopulateFromContract(i, c, clear) ==
    LET cs    == {y \in citems : y.contract = c}
        kept  == IF clear THEN iitems \ ItemsOf(iitems, i) ELSE iitems
        rows  == CopiedItems(kept, i, cs)
        ok    == /\ DealMatches(invoices[i], contracts[c])
                 /\ \A y \in cs : InvoiceItemFullCleanOk(invoices[i], y.description)
    IN
    /\ Cardinality(kept) + Cardinality(cs) <= MaxItems
    /\ lastOp' = [op |-> "populate", inv |-> i, ok |-> ok]
    /\ IF ok
       THEN /\ iitems' = rows
            /\ invoices' = [invoices EXCEPT ![i] = InvoiceRecalculateTotals(@, ItemsOf(rows, i))]
       ELSE UNCHANGED <<iitems, invoices>>
    /\ UNCHANGED <<payments, contracts, citems>>
    /\ UNCHANGED <<numVars, rounding, propVars, ptx>>

\* InvoiceUpdateView with InvoiceForm: status, subtotal, tax and total are
\* form fields; keep = TRUE posts the stored amounts back unchanged
InvoiceFormSave(i, status, keep, amount) ==
    /\ invoices' = [invoices EXCEPT ![i] =
                       IF keep THEN [@ EXCEPT !.status = status]
                       ELSE [@ EXCEPT !.status = status, !.subtotal = amount,
                                      !.tax = 0, !.total = amount]]
    /\ lastOp' = [op |-> "invoice_form", inv |-> i, ok |-> TRUE]
    /\ UNCHANGED <<iitems, payments, contracts, citems>>
    /\ UNCHANGED <<numVars, rounding, propVars, ptx>>

PaymentsOf(rows, i) == {x \in rows : x.invoice = i}

\* Payment.clean(): others are the invoice's payments except the one edited
PaymentCleanOkMut(inv, others, amount) == TRUE
PaymentCleanOk(inv, others, amount) ==
    LET already_paid == SumField(others, "amount")
        remaining    == inv.total - already_paid
    IN  ~(amount > remaining)

\* Payment._update_invoice_amount_paid()
UpdateInvoiceAmountPaidMut(inv, pays) ==
    LET total_paid == inv.amount_paid + SumField(pays, "amount")
    IN  [inv EXCEPT !.amount_paid = total_paid,
                    !.status = IF inv.total # 0 /\ total_paid >= inv.total THEN "paid"
                               ELSE IF total_paid > 0 /\ total_paid < inv.total
                                    THEN "partially_paid"
                               ELSE @]
UpdateInvoiceAmountPaid(inv, pays) ==
    LET total_paid == SumField(pays, "amount")
    IN  [inv EXCEPT !.amount_paid = total_paid,
                    !.status = IF inv.total # 0 /\ total_paid >= inv.total THEN "paid"
                               ELSE IF total_paid > 0 /\ total_paid < inv.total
                                    THEN "partially_paid"
                               ELSE @]

\* Payment.save() of a new row (old = {}) or of the stored row in old, with
\* the invoice and the amount the form holds
PaymentSave(old, i, amount) ==
    LET id   == IF old = {} THEN FreeId(payments, MaxPayments) ELSE (CHOOSE x \in old : TRUE).id
        ok   == PaymentCleanOk(invoices[i], PaymentsOf(payments, i) \ old, amount)
        rows == (payments \ old) \cup {[id |-> id, invoice |-> i, amount |-> amount]}
    IN
    /\ id # 0
    /\ lastOp' = [op |-> "payment_save", inv |-> i, ok |-> ok]
    /\ IF ok
       THEN /\ payments' = rows
            /\ invoices' = [invoices EXCEPT ![i] = UpdateInvoiceAmountPaid(@, PaymentsOf(rows, i))]
       ELSE UNCHANGED <<payments, invoices>>
    /\ UNCHANGED <<iitems, contracts, citems>>
    /\ UNCHANGED <<numVars, rounding, propVars, ptx>>

\* the lines of Payment.delete() after the row is removed: the invoice is
\* read again, amount_paid recomputed and the status set (its else branch
\* does nothing)
DeleteUpdateInvoiceMut(inv, pays) ==
    LET total_paid == SumField(pays, "amount")
    IN  [inv EXCEPT !.amount_paid = total_paid,
                    !.status = IF inv.total # 0 /\ total_paid >= inv.total THEN "paid"
                               ELSE IF total_paid > 0 /\ total_paid < inv.total
                                    THEN "partially_paid"
                               ELSE "issued"]
DeleteUpdateInvoice(inv, pays) ==
    LET total_paid == SumField(pays, "amount")
    IN  [inv EXCEPT !.amount_paid = total_paid,
                    !.status = IF inv.total # 0 /\ total_paid >= inv.total THEN "paid"
                               ELSE IF total_paid > 0 /\ total_paid < inv.total
                                    THEN "partially_paid"
                               ELSE @]

\* Payment.delete()
PaymentDelete(x) ==
    LET i    == x.invoice
        rows == payments \ {x}
    IN
    /\ x \in payments
    /\ payments' = rows
    /\ invoices' = [invoices EXCEPT ![i] = DeleteUpdateInvoice(@, PaymentsOf(rows, i))]
    /\ lastOp' = [op |-> "payment_delete", inv |-> i, ok |-> TRUE]
    /\ UNCHANGED <<iitems, contracts, citems>>
    /\ UNCHANGED <<numVars, rounding, propVars, ptx>>

NewInvoice(deal) ==
    [deal |-> deal, status |-> "draft", subtotal |-> 0, tax |-> 0, total |-> 0,
     amount_paid |-> 0]

ContractItemRow(id, c, desc, qty, unit) ==
    [id |-> id, contract |-> c, description |-> desc, quantity |-> qty,
     unit_price |-> unit, line_total |-> unit * qty]

\* numbering at rest
NumIdle ==
    /\ docType = "Invoice"
    /\ stored = {}
    /\ nextPk = 1
    /\ maxAssigned = 0
    /\ everDeleted = FALSE
    /\ wpc = [w \in Writers |-> "idle"]
    /\ wnum = [w \in Writers |-> EmptyNumber]
    /\ wtries = [w \in Writers |-> 0]
    /\ reqs = 0
    /\ numOp = NoNumOp

\* one draft invoice of deal 1 without items or payments; contract 1 (deal 1)
\* with one item, contract 2 (deal 1) without items, contract 3 of deal 2
Init ==
    /\ NumIdle
    /\ invoices = <<NewInvoice(1)>>
    /\ iitems = {}
    /\ payments = {}
    /\ contracts = <<[deal |-> 1], [deal |-> 1], [deal |-> 2]>>
    /\ citems = {ContractItemRow(1, 1, "Shoot", 3, 4000), ContractItemRow(2, 3, "Album", 1, 4000)}
    /\ proposals = <<>>
    /\ pitems = {}
    /\ lastOp = NoOp
    /\ ptx = TxIdle
    /\ catalog = InitialCatalog
    /\ rounding = "half_even"

InvoiceIds == DOMAIN invoices

ItemCreate ==
    \E i \in InvoiceIds, desc \in Descriptions, qty \in Quantities,
       unit \in UnitPrices, rate \in TaxRates :
        InvoiceItemSave(i, {}, desc, qty, unit, rate)

ItemUpdate ==
    \E x \in iitems, desc \in Descriptions, qty \in Quantities,
       unit \in UnitPrices, rate \in TaxRates :
        InvoiceItemSave(x.invoice, {x}, desc, qty, unit, rate)

ItemDelete == \E x \in iitems : InvoiceItemDelete(x)

Populate ==
    \E i \in InvoiceIds, c \in DOMAIN contracts, clear \in BOOLEAN :
        PopulateFromContract(i, c, clear)

InvoiceEdit ==
    \E i \in InvoiceIds, status \in FormStatuses, keep \in BOOLEAN, amount \in FormTotals :
        InvoiceFormSave(i, status, keep, amount)

PaymentCreate == \E i \in InvoiceIds, amount \in PayAmounts : PaymentSave({}, i, amount)

PaymentEdit ==
    \E x \in payments, i \in InvoiceIds, amount \in PayAmounts : PaymentSave({x}, i, amount)

PaymentRemove == \E x \in payments : PaymentDelete(x)

Next ==
    \/ ItemCreate
    \/ ItemUpdate
    \/ ItemDelete
    \/ Populate
    \/ InvoiceEdit
    \/ PaymentCreate
    \/ PaymentEdit
    \/ PaymentRemove

Spec == Init /\ [][Next]_vars

-----------------------------------------------------------------------------
(* Claims about invoices, items and payments *)

PaidSum(i) == SumField(PaymentsOf(payments, i), "amount")

TotalsMatchItems(inv, its) ==
    /\ inv.subtotal = SumField(its, "line_subtotal")
    /\ inv.tax = SumField(its, "tax_amount")
    /\ inv.total = SumField(its, "line_total")

\* C1: a payment create, update or delete on an invoice whose payments sum to
\* at most its total leaves the sum of its stored payments at most the total.
C1_NoOverpayment ==
    [][\A i \in InvoiceIds :
          (/\ lastOp'.op \in {"payment_save", "payment_delete"}
           /\ PaidSum(i) <= invoices[i].total)
          => SumField(PaymentsOf(payments', i), "amount") <= invoices'[i].total]_vars

\* C3: while an invoice is not a draft, every InvoiceItem save or delete on it
\* is rejected and leaves the stored items and the invoice (subtotal, tax,
\* total) unchanged.
C3_ItemLock ==
    [][(/\ lastOp'.op \in {"item_save", "item_delete"}
        /\ invoices[lastOp'.inv].status # "draft")
       => (/\ lastOp'.ok = FALSE
           /\ iitems' = iitems
           /\ invoices' = invoices)]_vars

\* an item write was refused on an issued invoice that has items
C3_Witness ==
    /\ lastOp.op = "item_save"
    /\ ~lastOp.ok
    /\ invoices[1].status = "issued"
    /\ invoices[1].total > 0
    /\ ItemsOf(iitems, 1) # {}

\* C12: after every Payment save or delete that went through, the invoice's
\* status is paid if amount_paid >= total, partially_paid if
\* 0 < amount_paid < total, and otherwise the status it had before.
C12_StatusFollowsPayments ==
    [][(lastOp'.op \in {"payment_save", "payment_delete"} /\ lastOp'.ok) =>
          LET before == invoices[lastOp'.inv]
              after  == invoices'[lastOp'.inv]
          IN  after.status =
                  IF after.amount_paid >= after.total THEN "paid"
                  ELSE IF 0 < after.amount_paid /\ after.amount_paid < after.total
                       THEN "partially_paid"
                  ELSE before.status]_vars

\* C17: populate_from_contract fails whenever the invoice's deal is set and
\* differs from the contract's deal, and then creates and deletes no
\* InvoiceItem and leaves the invoice (deal, subtotal, tax, total) as it was.
C17_DealMismatchRejected ==
    \A i \in InvoiceIds, c \in DOMAIN contracts, clear \in BOOLEAN :
        (invoices[i].deal # 0 /\ invoices[i].deal # contracts[c].deal) =>
            ~ENABLED (/\ PopulateFromContract(i, c, clear)
                      /\ \/ lastOp'.ok
                         \/ iitems' # iitems
                         \/ invoices' # invoices)

\* populate_from_contract was refused on a draft invoice that has an item
\* (only the contract of the other deal is refused there)
C17_Witness ==
    /\ lastOp.op = "populate"
    /\ ~lastOp.ok
    /\ invoices[1].status = "draft"
    /\ invoices[1].total = 12000
    /\ Cardinality(ItemsOf(iitems, 1)) = 1

\* C18: after a successful populate_from_contract(contract, clear_existing =
\* True) on a draft invoice the invoice has exactly one item per ContractItem,
\* with its description, quantity and unit_price and tax_rate 0, and
\* tax = 0, total = subtotal = sum of unit_price x quantity over the
\* contract's items.
C18_PopulateFromContract ==
    \A i \in InvoiceIds, c \in DOMAIN contracts :
        invoices[i].status = "draft" =>
            ~ENABLED (/\ PopulateFromContract(i, c, TRUE)
                      /\ lastOp'.ok
                      /\ LET cs  == {y \in citems : y.contract = c}
                             its == {x \in iitems' : x.invoice = i}
                             sum == SumField({[id |-> y.id, v |-> y.unit_price * y.quantity]
                                              : y \in cs}, "v")
                         IN  ~(/\ Cardinality(its) = Cardinality(cs)
                               /\ \A y \in cs : \E x \in its :
                                     /\ x.description = y.description
                                     /\ x.quantity = y.quantity
                                     /\ x.unit_price = y.unit_price
                               /\ \A x \in its : x.tax_rate = 0
                               /\ invoices'[i].tax = 0
                               /\ invoices'[i].subtotal = sum
                               /\ invoices'[i].total = sum))

\* a draft invoice was populated from the contract with one item and holds
\* the copy of that item alone, untaxed
C18_Witness ==
    /\ lastOp.op = "populate"
    /\ lastOp.ok
    /\ invoices[1].status = "draft"
    /\ \E x \in iitems : /\ ItemsOf(iitems, 1) = {x}
                         /\ x.description = "Shoot" /\ x.quantity = 3 /\ x.unit_price = 4000
                         /\ x.tax_rate = 0
    /\ invoices[1].tax = 0
    /\ invoices[1].total = 12000

\* C28: populate_from_contract(contract, clear_existing = True) on an invoice
\* that is not in draft changes neither the invoice's items nor its subtotal,
\* tax and total, whatever the contract, one without items included.
C28_PopulateRespectsLock ==
    \A i \in InvoiceIds, c \in DOMAIN contracts :
        invoices[i].status # "draft" =>
            ~ENABLED (/\ PopulateFromContract(i, c, TRUE)
                      /\ \/ ItemsOf(iitems', i) # ItemsOf(iitems, i)
                         \/ invoices'[i].subtotal # invoices[i].subtotal
                         \/ invoices'[i].tax # invoices[i].tax
                         \/ invoices'[i].total # invoices[i].total)

C4_BalanceNonNegative == \A i \in InvoiceIds : Balance(invoices[i]) >= 0

\* C10: after every successful InvoiceItem save or delete and after every
\* successful populate_from_contract the invoice's stored subtotal, tax and
\* total are the sums of line_subtotal, tax_amount and line_total over its
\* stored items (item write and totals are one atomic step).
C10_TotalsFollowItems ==
    (lastOp.op \in {"item_save", "item_delete", "populate"} /\ lastOp.ok)
    => TotalsMatchItems(invoices[lastOp.inv], ItemsOf(iitems, lastOp.inv))

\* an item with tax was saved on a draft invoice that holds two items
C10_Witness ==
    /\ lastOp.op = "item_save"
    /\ lastOp.ok
    /\ Cardinality(ItemsOf(iitems, 1)) = 2
    /\ invoices[1].tax > 0
    /\ invoices[1].total = invoices[1].subtotal + invoices[1].tax

-----------------------------------------------------------------------------
(* Proposals and proposal items: each request runs to completion *)


\* what an item form is fed with: service and package are catalog ids, 0 for
\* none
ItemInputs ==
    {[service |-> 1, package |-> 0, description |-> "", quantity |-> 2, unit_price |-> 0],
     [service |-> 0, package |-> 1, description |-> "", quantity |-> 1, unit_price |-> 0],
     [service |-> 0, package |-> 1, description |-> "Album", quantity |-> 2, unit_price |-> 10000],
     [service |-> 2, package |-> 0, description |-> "Travel", quantity |-> 1, unit_price |-> 10000],
     [service |-> 2, package |-> 0, description |-> "", quantity |-> 1, unit_price |-> 0]}
Discounts == {0, 1000, 30000}
Taxes == {0, 2000}
AdminTotals == {0, 24000}

ProposalItemsOf(rows, p) == {x \in rows : x.proposal = p}

\* Proposal.recalculate_totals(save=True)
ProposalRecalculateTotals(prop, its) ==
    LET subtotal == SumField(its, "line_total")
        total    == subtotal - prop.discount + prop.tax
    IN  [prop EXCEPT !.subtotal = subtotal,
                     !.total = IF total < 0 THEN 0 ELSE total]

\* ProposalItem.clean(), as run by the item forms, after the form has looked
\* the selected catalog entry up ("Selected service does not exist.")
ProposalItemCleanOk(in) ==
    /\ ~(in.service # 0 /\ in.package # 0)
    /\ ~(in.service = 0 /\ in.package = 0)
    /\ in.service # 0 => in.service \in DOMAIN catalog.services
    /\ in.package # 0 => in.package \in DOMAIN catalog.packages
    /\ (in.service # 0 /\ catalog.services[in.service].name = "other") =>
          (in.description # "" /\ in.unit_price > 0)

\* the row ProposalItem.save() writes
ProposalItemRowMut(id, p, in) ==
    LET description == IF in.description # "" THEN in.description
                       ELSE IF in.service # 0 THEN catalog.services[in.service].name
                       ELSE IF in.package # 0 THEN catalog.packages[in.package].name
                       ELSE ""
        unit_price  == IF in.service # 0 THEN catalog.services[in.service].base_price
                       ELSE IF in.package # 0 THEN catalog.packages[in.package].total_price
                       ELSE in.unit_price
    IN  [id |-> id, proposal |-> p, service |-> in.service, package |-> in.package,
         description |-> description, quantity |-> in.quantity, unit_price |-> unit_price,
         line_total |-> unit_price * in.quantity]
ProposalItemRow(id, p, in) ==
    LET description == IF in.description # "" THEN in.description
                       ELSE IF in.service # 0 THEN catalog.services[in.service].name
                       ELSE IF in.package # 0 THEN catalog.packages[in.package].name
                       ELSE ""
        unit_price  == IF in.unit_price # 0 THEN in.unit_price
                       ELSE IF in.service # 0 THEN catalog.services[in.service].base_price
                       ELSE IF in.package # 0 THEN catalog.packages[in.package].total_price
                       ELSE 0
    IN  [id |-> id, proposal |-> p, service |-> in.service, package |-> in.package,
         description |-> description, quantity |-> in.quantity, unit_price |-> unit_price,
         line_total |-> unit_price * in.quantity]

\* a valid item form saved: ProposalItem.save() of a new row (old = {}) or of
\* the stored row in old; an invalid form changes nothing
ProposalItemSave(p, old, in) ==
    LET id   == IF old = {} THEN FreeId(pitems, MaxProposalItems)
                ELSE (CHOOSE x \in old : TRUE).id
        ok   == ProposalItemCleanOk(in)
        rows == (pitems \ old) \cup {ProposalItemRow(id, p, in)}
    IN
    /\ id # 0
    /\ lastOp' = [op |-> "pitem_save", inv |-> p, ok |-> ok]
    /\ IF ok
       THEN /\ pitems' = rows
            /\ proposals' = [proposals EXCEPT ![p] =
                                ProposalRecalculateTotals(@, ProposalItemsOf(rows, p))]
       ELSE UNCHANGED <<pitems, proposals>>
    /\ UNCHANGED <<invoices, iitems, payments, contracts, citems>>
    /\ UNCHANGED <<numVars, rounding, ptx, catalog>>

\* ContractItem.proposal_item, on_delete = SET_NULL: what the deletion of the
\* ProposalItems ids does to the ContractItem rows (0 is NULL)
ProposalItemSetNullMut(rows, ids) == {y \in rows : y.proposal_item \notin ids}
ProposalItemSetNull(rows, ids) ==
    {IF y.proposal_item \in ids THEN [y EXCEPT !.proposal_item = 0] ELSE y : y \in rows}

\* ProposalItem.delete()
ProposalItemDelete(x) ==
    LET p    == x.proposal
        rows == pitems \ {x}
    IN
    /\ x \in pitems
    /\ pitems' = rows
    /\ citems' = ProposalItemSetNull(citems, {x.id})
    /\ proposals' = [proposals EXCEPT ![p] =
                        ProposalRecalculateTotals(@, ProposalItemsOf(rows, p))]
    /\ lastOp' = [op |-> "pitem_delete", inv |-> p, ok |-> TRUE]
    /\ UNCHANGED <<invoices, iitems, payments, contracts>>
    /\ UNCHANGED <<numVars, rounding, ptx, catalog>>

\* ProposalUpdateView.form_valid(): ProposalForm (discount, tax) saved, the
\* item formset saved, then recalculate_totals()
ProposalUpdate(p, discount, tax) ==
    /\ proposals' = [proposals EXCEPT ![p] =
                        ProposalRecalculateTotals([@ EXCEPT !.discount = discount, !.tax = tax],
                                                  ProposalItemsOf(pitems, p))]
    /\ lastOp' = [op |-> "proposal_update", inv |-> p, ok |-> TRUE]
    /\ UNCHANGED <<pitems, invoices, iitems, payments, contracts, citems>>
    /\ UNCHANGED <<numVars, rounding, ptx, catalog>>

\* the change form of ProposalAdmin saved with no inline row changed: every
\* field of the model is a form field and Proposal.save() is the default one
ProposalAdminSave(p, discount, tax, subtotal, total) ==
    /\ proposals' = [proposals EXCEPT ![p] =
                        [subtotal |-> subtotal, discount |-> discount, tax |-> tax,
                         total |-> total]]
    /\ lastOp' = [op |-> "proposal_admin", inv |-> p, ok |-> TRUE]
    /\ UNCHANGED <<pitems, invoices, iitems, payments, contracts, citems>>
    /\ UNCHANGED <<numVars, rounding, ptx, catalog>>

NewProposal == [subtotal |-> 0, discount |-> 0, tax |-> 0, total |-> 0]

\* one proposal without items
PropInit ==
    /\ NumIdle
    /\ invoices = <<>>
    /\ iitems = {}
    /\ payments = {}
    /\ contracts = <<>>
    /\ citems = {}
    /\ proposals = <<NewProposal>>
    /\ pitems = {}
    /\ lastOp = NoOp
    /\ ptx = TxIdle
    /\ catalog = InitialCatalog
    /\ rounding = "half_even"

ProposalIds == DOMAIN proposals

PItemCreate == \E p \in ProposalIds, in \in ItemInputs : ProposalItemSave(p, {}, in)

PItemUpdate == \E x \in pitems, in \in ItemInputs : ProposalItemSave(x.proposal, {x}, in)

PItemDelete == \E x \in pitems : ProposalItemDelete(x)

ProposalEdit ==
    \E p \in ProposalIds, discount \in Discounts, tax \in Taxes : ProposalUpdate(p, discount, tax)

ProposalAdminEdit ==
    \E p \in ProposalIds, discount \in Discounts, tax \in Taxes, total \in AdminTotals :
        \/ ProposalAdminSave(p, discount, tax, proposals[p].subtotal, proposals[p].total)
        \/ ProposalAdminSave(p, discount, tax, proposals[p].subtotal, total)

PropNext ==
    \/ PItemCreate
    \/ PItemUpdate
    \/ PItemDelete
    \/ ProposalEdit
    \/ ProposalAdminEdit

SpecProp == PropInit /\ [][PropNext]_vars

\* C9: every stored proposal has subtotal = sum of line_total over its items
\* and total = max(0, subtotal - discount + tax), whatever item saves and
\* deletes and proposal saves came before; no subtotal or total supplied by a
\* caller is kept.
C9_ProposalTotals ==
    \A p \in ProposalIds :
        LET prop == proposals[p]
            sub  == SumField(ProposalItemsOf(pitems, p), "line_total")
            tot  == sub - prop.discount + prop.tax
        IN  /\ prop.subtotal = sub
            /\ prop.total = IF tot < 0 THEN 0 ELSE tot

\* the subtotal and total Proposal.recalculate_totals() stores for the items
\* its of the proposal
ProposalTotalsFollow(prop, its) ==
    LET sub == SumField(its, "line_total")
        tot == sub - prop.discount + prop.tax
    IN  /\ prop.subtotal = sub
        /\ prop.total = IF tot < 0 THEN 0 ELSE tot

\* C29: a ProposalItem save that goes through stores the caller's
\* description, or the name of the referenced service or package when the
\* description is empty; the caller's unit_price, or the catalog price when
\* it is zero; line_total = unit_price x quantity; and leaves the proposal's
\* subtotal and total recalculated from its items.  A ProposalItem delete
\* leaves them recalculated from the remaining items.
C29_ItemSaveFillsAndRecalculates ==
    /\ \A p \in ProposalIds, old \in {{}} \cup {{x} : x \in pitems}, in \in ItemInputs :
           ~ENABLED (/\ ProposalItemSave(p, old, in)
                     /\ lastOp'.ok
                     /\ LET name  == IF in.service # 0 THEN catalog.services[in.service].name
                                     ELSE catalog.packages[in.package].name
                            price == IF in.service # 0
                                     THEN catalog.services[in.service].base_price
                                     ELSE catalog.packages[in.package].total_price
                        IN  ~(/\ \E x \in pitems' \ (pitems \ old) :
                                    /\ x.proposal = p
                                    /\ x.service = in.service /\ x.package = in.package
                                    /\ x.quantity = in.quantity
                                    /\ x.description = IF in.description = "" THEN name
                                                       ELSE in.description
                                    /\ x.unit_price = IF in.unit_price = 0 THEN price
                                                      ELSE in.unit_price
                                    /\ x.line_total = x.unit_price * x.quantity
                              /\ ProposalTotalsFollow(proposals'[p],
                                                      ProposalItemsOf(pitems', p))))
    /\ \A x \in pitems :
           ~ENABLED (/\ ProposalItemDelete(x)
                     /\ ~(/\ x \notin pitems'
                           /\ ProposalTotalsFollow(proposals'[x.proposal],
                                                   ProposalItemsOf(pitems', x.proposal))))

\* an item saved with no description and no price holds the name and the
\* price of its service, beside an item that kept the description and price
\* it was given, and the proposal's subtotal is the sum of both
C29_Witness ==
    /\ lastOp.op = "pitem_save"
    /\ lastOp.ok
    /\ \E x \in pitems, y \in pitems :
           /\ x.service = 1 /\ x.description = "Photography"
           /\ x.unit_price = 10000 /\ x.line_total = 20000
           /\ y.package = 1 /\ y.description = "Album"
           /\ y.unit_price = 10000 /\ y.line_total = 20000
    /\ proposals[lastOp.inv].subtotal = 40000

-----------------------------------------------------------------------------
(* Payment.save() in concurrent transactions.  A transaction reads the     *)
(* committed rows and its own writes (READ COMMITTED, the level Django's   *)
(* PostgreSQL and Oracle backends run at); its insert and its invoice      *)
(* write become visible to the others when save() returns and the atomic   *)
(* block commits.                                                          *)

\* the payment row a save in flight has inserted and not yet committed
TxRow(w) == [id |-> ptx[w].id, invoice |-> ptx[w].invoice, amount |-> ptx[w].amount]

InsertedBy(ws) == {TxRow(w) : w \in {v \in ws : ptx[v].pc \in {"update", "write", "commit"}}}

\* the payment rows the queries of writer w's transaction return
VisiblePaymentsMut(w) == payments \cup InsertedBy(Writers)
VisiblePayments(w) == payments \cup InsertedBy({w})

\* PaymentCreateView: the form is bound to an invoice (fetched now, held by
\* the instance from here on) and an amount, then Payment.save() is entered
PayBegin(w) ==
    /\ ptx[w].pc = "idle"
    /\ \E i \in InvoiceIds, amount \in PayAmounts :
          ptx' = [ptx EXCEPT ![w] = [NoTx EXCEPT !.pc = "clean", !.invoice = i,
                                                 !.amount = amount,
                                                 !.total = invoices[i].total,
                                                 !.status = invoices[i].status]]
    /\ UNCHANGED <<invoices, iitems, payments, contracts, citems, lastOp>>
    /\ UNCHANGED <<numVars, rounding, propVars>>

\* self.full_clean(): clean() sums the payments of the invoice it can see
PayClean(w) ==
    LET t      == ptx[w]
        others == PaymentsOf(VisiblePayments(w), t.invoice)
        ok     == PaymentCleanOk([total |-> t.total], others, t.amount)
    IN
    /\ t.pc = "clean"
    /\ ptx' = [ptx EXCEPT ![w] = [t EXCEPT !.pc = IF ok THEN "insert" ELSE "rejected",
                                           !.already_paid = SumField(others, "amount")]]
    /\ lastOp' = IF ok THEN lastOp ELSE [op |-> "payment_save", inv |-> t.invoice, ok |-> FALSE]
    /\ UNCHANGED <<invoices, iitems, payments, contracts, citems>>
    /\ UNCHANGED <<numVars, rounding, propVars>>

\* super().save(): the row is inserted under the next key of the sequence
PayInsert(w) ==
    LET id == FreeId(payments \cup InsertedBy(Writers), MaxPayments) IN
    /\ ptx[w].pc = "insert"
    /\ id # 0
    /\ ptx' = [ptx EXCEPT ![w].pc = "update", ![w].id = id]
    /\ UNCHANGED <<invoices, iitems, payments, contracts, citems, lastOp>>
    /\ UNCHANGED <<numVars, rounding, propVars>>

\* self._update_invoice_amount_paid(), up to invoice.save(): the aggregate
\* query sums the visible payments, and amount_paid and status are set on the
\* invoice instance
PayUpdate(w) ==
    LET t   == ptx[w]
        inv == UpdateInvoiceAmountPaid([total |-> t.total, status |-> t.status,
                                        amount_paid |-> 0],
                                       PaymentsOf(VisiblePayments(w), t.invoice))
    IN
    /\ t.pc = "update"
    /\ ptx' = [ptx EXCEPT ![w] = [t EXCEPT !.pc = "write", !.amount_paid = inv.amount_paid,
                                           !.status = inv.status]]
    /\ UNCHANGED <<invoices, iitems, payments, contracts, citems, lastOp>>
    /\ UNCHANGED <<numVars, rounding, propVars>>

\* invoice.save(update_fields = ...): the UPDATE of the invoice row with the
\* values set before; it waits while another transaction holds an
\* uncommitted write of that row
PayWrite(w) ==
    LET t == ptx[w] IN
    /\ t.pc = "write"
    /\ \A v \in Writers : ~(ptx[v].pc = "commit" /\ ptx[v].invoice = t.invoice)
    /\ ptx' = [ptx EXCEPT ![w].pc = "commit"]
    /\ UNCHANGED <<invoices, iitems, payments, contracts, citems, lastOp>>
    /\ UNCHANGED <<numVars, rounding, propVars>>

\* save() returns: the atomic block commits the row and the invoice write
\* (update_fields = amount_paid, status)
PayCommit(w) ==
    LET t == ptx[w] IN
    /\ t.pc = "commit"
    /\ payments' = payments \cup {TxRow(w)}
    /\ invoices' = [invoices EXCEPT ![t.invoice] =
                       [@ EXCEPT !.amount_paid = t.amount_paid, !.status = t.status]]
    /\ ptx' = [ptx EXCEPT ![w].pc = "done"]
    /\ lastOp' = [op |-> "payment_save", inv |-> t.invoice, ok |-> TRUE]
    /\ UNCHANGED <<iitems, contracts, citems>>
    /\ UNCHANGED <<numVars, rounding, propVars>>

\* one issued invoice of 120.00 with its item and no payment
PayInit ==
    /\ NumIdle
    /\ rounding = "half_even"
    /\ invoices = <<[InvoiceRecalculateTotals(NewInvoice(1),
                                              {InvoiceItemRow(1, 1, "Shoot", 3, 4000, 0)})
                     EXCEPT !.status = "issued"]>>
    /\ iitems = {InvoiceItemRow(1, 1, "Shoot", 3, 4000, 0)}
    /\ payments = {}
    /\ contracts = <<>>
    /\ citems = {}
    /\ proposals = <<>>
    /\ pitems = {}
    /\ lastOp = NoOp
    /\ ptx = TxIdle
    /\ catalog = InitialCatalog

PayNext ==
    \E w \in Writers :
        \/ PayBegin(w)
        \/ PayClean(w)
        \/ PayInsert(w)
        \/ PayUpdate(w)
        \/ PayWrite(w)
        \/ PayCommit(w)

SpecPay == PayInit /\ [][PayNext]_vars

\* C5: a Payment.save() checks its amount against the committed payments of
\* the invoice only, so a save that runs while another is between its check
\* and its commit is checked against a sum that leaves the other's payment
\* out; a save that passed the check is never sent back to it or dropped
\* (no lock, no retry), and its commit stores the payment.
C5_StaleOverpaymentCheck ==
    [][\A w \in Writers :
          LET t    == ptx[w]
              paid == SumField(PaymentsOf(payments, t.invoice), "amount")
          IN
          /\ (t.pc = "clean" /\ ptx'[w].pc # "clean") =>
                /\ ptx'[w].already_paid = paid
                /\ (ptx'[w].pc = "insert") = (t.amount <= invoices[t.invoice].total - paid)
          /\ (t.pc = "clean" /\ t.amount <= invoices[t.invoice].total - paid) =>
                ENABLED PayClean(w)
          /\ t.pc \in {"insert", "update", "write", "commit"} =>
                ptx'[w].pc \in {"insert", "update", "write", "commit", "done"}
          /\ (t.pc = "commit" /\ ptx'[w].pc = "done") => TxRow(w) \in payments']_vars

\* two saves each passed the check against an already-paid sum of 0, both
\* payments are stored and together they exceed the invoice's total
C5_Witness ==
    \E w1 \in Writers : \E w2 \in Writers :
        /\ w1 # w2
        /\ ptx[w1].pc = "done" /\ ptx[w2].pc = "done"
        /\ ptx[w1].invoice = 1 /\ ptx[w2].invoice = 1
        /\ ptx[w1].already_paid = 0 /\ ptx[w2].already_paid = 0
        /\ ptx[w1].amount > 0 /\ ptx[w2].amount > 0
        /\ {TxRow(w1), TxRow(w2)} \subseteq payments
        /\ ptx[w1].amount + ptx[w2].amount > invoices[1].total

\* C26: once the concurrent payment saves on an invoice have all committed
\* (none is in flight), the invoice's stored amount_paid is the sum of the
\* amounts of its committed payments.
C26_NoLostRecomputation ==
    (\A w \in Writers : ptx[w].pc \in {"idle", "done", "rejected"}) =>
        \A i \in InvoiceIds :
            PaymentsOf(payments, i) # {} =>
                invoices[i].amount_paid = SumField(PaymentsOf(payments, i), "amount")

-----------------------------------------------------------------------------
(* The payment ledger over two invoices: each request runs to completion *)

\* the amount_paid an invoice may hold before its first payment: 0, or a
\* value posted from the change form of InvoiceAdmin, where amount_paid is a
\* form field like every other editable field
AdminPaid == {0, 3000}

\* an issued invoice of 120.00 with its item
IssuedInvoice(i, amount_paid) ==
    [InvoiceRecalculateTotals(NewInvoice(1), {InvoiceItemRow(i, i, "Shoot", 3, 4000, 0)})
     EXCEPT !.status = "issued", !.amount_paid = amount_paid]

\* two issued invoices of 120.00 each, no payment yet
LedgerInit ==
    /\ NumIdle
    /\ rounding = "half_even"
    /\ \E a1 \in AdminPaid, a2 \in AdminPaid :
          invoices = <<IssuedInvoice(1, a1), IssuedInvoice(2, a2)>>
    /\ iitems = {InvoiceItemRow(1, 1, "Shoot", 3, 4000, 0), InvoiceItemRow(2, 2, "Shoot", 3, 4000, 0)}
    /\ payments = {}
    /\ contracts = <<>>
    /\ citems = {}
    /\ proposals = <<>>
    /\ pitems = {}
    /\ lastOp = NoOp
    /\ ptx = TxIdle
    /\ catalog = InitialCatalog

LedgerNext ==
    \/ PaymentCreate
    \/ PaymentEdit
    \/ PaymentRemove

SpecLedger == LedgerInit /\ [][LedgerNext]_vars

\* C11: after a Payment save or delete has gone through, the invoice of the
\* payment has amount_paid equal to the sum of its stored payments, whatever
\* amount_paid held before the operation.
C11_AmountPaidRecomputed ==
    [][(lastOp'.op \in {"payment_save", "payment_delete"} /\ lastOp'.ok) =>
          invoices'[lastOp'.inv].amount_paid =
              SumField(PaymentsOf(payments', lastOp'.inv), "amount")]_vars

\* a payment of invoice 1 was deleted and its amount_paid is the sum of the
\* payment left, in a behaviour that began with amount_paid values that were
\* not sums (invoice 2 still holds one)
C11_Witness ==
    /\ lastOp.op = "payment_delete"
    /\ lastOp.inv = 1
    /\ PaidSum(1) = 6000
    /\ invoices[1].amount_paid = 6000
    /\ invoices[2].amount_paid = 3000
    /\ PaymentsOf(payments, 2) = {}

\* C25: after a Payment save that went through, the invoice of the payment
\* and, when the save moved the payment, the invoice it belonged to before
\* both have amount_paid equal to the sum of their own stored payments.
C25_BothInvoicesRecomputed ==
    [][(lastOp'.op = "payment_save" /\ lastOp'.ok) =>
          \A i \in {lastOp'.inv} \cup {x.invoice : x \in payments \ payments'} :
              invoices'[i].amount_paid = SumField(PaymentsOf(payments', i), "amount")]_vars

\* C13: a Payment save (create, or edit of a stored payment) is rejected
\* exactly when its amount is greater than the invoice's total minus the sum
\* of the other payments of that invoice; a rejected save leaves the payments
\* and the invoices as they were, an accepted one stores the payment.
C13_OverpaymentRejected ==
    \A old \in {{}} \cup {{x} : x \in payments}, i \in InvoiceIds, amount \in PayAmounts :
        (old # {} \/ Cardinality(payments) < MaxPayments) =>
            LET others  == {x \in payments : x.invoice = i /\ x \notin old}
                exceeds == amount > invoices[i].total - SumField(others, "amount")
            IN  ~ENABLED (/\ PaymentSave(old, i, amount)
                          /\ \/ lastOp'.ok = exceeds
                             \/ /\ lastOp'.ok
                                /\ \A x \in payments' : ~(x.invoice = i /\ x.amount = amount)
                             \/ /\ ~lastOp'.ok
                                /\ (payments' # payments \/ invoices' # invoices))

\* a payment that exceeds what is left of invoice 1 after the 60.00 already
\* paid was refused
C13_Witness ==
    /\ lastOp.op = "payment_save"
    /\ lastOp.inv = 1
    /\ ~lastOp.ok
    /\ PaidSum(1) = 6000
    /\ invoices[1].amount_paid = 6000
    /\ invoices[1].status = "partially_paid"

\* C14: every stored Payment has amount > 0 (a save with a zero or negative
\* amount is rejected and stores nothing).
C14_PositiveAmounts == \A x \in payments : x.amount > 0

-----------------------------------------------------------------------------
(* Contracts populated from proposals: each request runs to completion *)

\* the prices a catalog row may be given after the items that refer to it
\* were written
CatalogPrices == {0, 5000}

ContractItemsOf(rows, c) == {y \in rows : y.contract = c}

\* the row ContractItem.save() writes for
\* ContractItem.objects.create(contract, proposal_item, service, package,
\* description, quantity, unit_price); pi is the ProposalItem row
ContractItemCopy(id, c, pi) ==
    LET description == IF pi.description # "" THEN pi.description
                       ELSE IF pi.service # 0 THEN catalog.services[pi.service].name
                       ELSE IF pi.package # 0 THEN catalog.packages[pi.package].name
                       ELSE pi.description
        unit_price  == IF pi.unit_price # 0 THEN pi.unit_price
                       ELSE IF pi.service # 0 THEN catalog.services[pi.service].base_price
                       ELSE IF pi.package # 0 THEN catalog.packages[pi.package].total_price
                       ELSE pi.unit_price
    IN  [id |-> id, contract |-> c, proposal_item |-> pi.id, service |-> pi.service,
         package |-> pi.package, description |-> description, quantity |-> pi.quantity,
         unit_price |-> unit_price, line_total |-> unit_price * pi.quantity]

\* the rows the loop of populate_from_proposal adds for the proposal items
\* ps, in the order of their ids
RECURSIVE CopiedContractItems(_, _, _)
CopiedContractItems(rows, c, ps) ==
    IF ps = {} THEN rows
    ELSE LET pi == CHOOSE y \in ps : \A z \in ps : y.id <= z.id
         IN  CopiedContractItems(
                 rows \cup {ContractItemCopy(FreeId(rows, MaxContractItems), c, pi)},
                 c, ps \ {pi})

\* Contract.populate_from_proposal(proposal, clear_existing)
PopulateFromProposal(c, p, clear) ==
    LET ps   == ProposalItemsOf(pitems, p)
        kept == IF clear THEN citems \ ContractItemsOf(citems, c) ELSE citems
    IN
    /\ Cardinality(kept) + Cardinality(ps) <= MaxContractItems
    /\ contracts' = [contracts EXCEPT ![c].proposal = IF @ = 0 THEN p ELSE @]
    /\ citems' = CopiedContractItems(kept, c, ps)
    /\ lastOp' = [op |-> "populate_contract", inv |-> c, ok |-> TRUE, proposal |-> p,
                  clear |-> clear]
    /\ UNCHANGED <<invoices, iitems, payments, proposals, pitems, catalog>>
    /\ UNCHANGED <<numVars, rounding, ptx>>

\* Proposal.delete(): its items go with it (CASCADE), Contract.proposal and
\* ContractItem.proposal_item are set to NULL
ProposalDelete(p) ==
    LET ps == ProposalItemsOf(pitems, p) IN
    /\ proposals' = [q \in DOMAIN proposals \ {p} |-> proposals[q]]
    /\ pitems' = pitems \ ps
    /\ contracts' = [c \in DOMAIN contracts |->
                        IF contracts[c].proposal = p THEN [contracts[c] EXCEPT !.proposal = 0]
                        ELSE contracts[c]]
    /\ citems' = ProposalItemSetNull(citems, {x.id : x \in ps})
    /\ lastOp' = [op |-> "proposal_delete", inv |-> p, ok |-> TRUE]
    /\ UNCHANGED <<invoices, iitems, payments, catalog>>
    /\ UNCHANGED <<numVars, rounding, ptx>>

\* Package.recalculate_total(): total_price follows the package's own items
PackageRecalculateTotal(k, price) ==
    /\ catalog' = [catalog EXCEPT !.packages[k].total_price = price]
    /\ lastOp' = [op |-> "catalog", inv |-> k, ok |-> TRUE]
    /\ UNCHANGED <<invoices, iitems, payments, contracts, citems, proposals, pitems>>
    /\ UNCHANGED <<numVars, rounding, ptx>>

\* one contract without items, one proposal without items
ContractInit ==
    /\ NumIdle
    /\ invoices = <<>>
    /\ iitems = {}
    /\ payments = {}
    /\ contracts = <<[deal |-> 1, proposal |-> 0]>>
    /\ citems = {}
    /\ proposals = <<NewProposal>>
    /\ pitems = {}
    /\ lastOp = NoOp
    /\ ptx = TxIdle
    /\ catalog = InitialCatalog
    /\ rounding = "half_even"

ContractPopulate ==
    \E c \in DOMAIN contracts, p \in ProposalIds, clear \in BOOLEAN :
        PopulateFromProposal(c, p, clear)

ProposalRemove == \E p \in ProposalIds : ProposalDelete(p)

\* the item forms of the proposal whose items are copied: a package item
\* priced from the catalog, and one with its own description and price
SourceInputs ==
    {[service |-> 0, package |-> 1, description |-> "", quantity |-> 2, unit_price |-> 0],
     [service |-> 0, package |-> 1, description |-> "Album", quantity |-> 1, unit_price |-> 10000]}

SourceItemCreate == \E p \in ProposalIds, in \in SourceInputs : ProposalItemSave(p, {}, in)

SourceItemUpdate == \E x \in pitems, in \in SourceInputs : ProposalItemSave(x.proposal, {x}, in)

PackageEdit == \E price \in CatalogPrices : PackageRecalculateTotal(1, price)

ContractNext ==
    \/ SourceItemCreate
    \/ SourceItemUpdate
    \/ PItemDelete
    \/ ProposalRemove
    \/ ContractPopulate
    \/ PackageEdit

SpecContract == ContractInit /\ [][ContractNext]_vars

\* C15: updating or deleting a ProposalItem, or deleting the Proposal, after
\* a contract was populated from it removes no ContractItem and changes no
\* ContractItem's description, quantity, unit_price or line_total.
C15_CopiesIndependent ==
    [][lastOp'.op \in {"pitem_save", "pitem_delete", "proposal_delete"} =>
          \A y \in citems : \E z \in citems' :
              /\ z.id = y.id
              /\ z.contract = y.contract
              /\ z.description = y.description
              /\ z.quantity = y.quantity
              /\ z.unit_price = y.unit_price
              /\ z.line_total = y.line_total]_vars

\* the proposal a contract was populated from has been deleted and the
\* contract still holds its two items, now without their source rows
C15_Witness ==
    /\ lastOp.op = "proposal_delete"
    /\ contracts[1].proposal = 0
    /\ Cardinality(ContractItemsOf(citems, 1)) = 2
    /\ \A y \in citems : y.proposal_item = 0 /\ y.line_total > 0

\* C16: populate_from_proposal(proposal, clear_existing) adds to the contract
\* exactly one ContractItem per ProposalItem of the proposal, with the
\* ProposalItem's description, quantity and unit_price (a unit_price of 0
\* included) and line_total = unit_price x quantity; with clear_existing the
\* contract holds nothing else, without it the items already there stay.
C16_PopulateCopies ==
    [][lastOp'.op = "populate_contract" =>
          LET c      == lastOp'.inv
              ps     == ProposalItemsOf(pitems, lastOp'.proposal)
              before == IF lastOp'.clear THEN {} ELSE ContractItemsOf(citems, c)
              after  == ContractItemsOf(citems', c)
              added  == after \ before
          IN  /\ before \subseteq after
              /\ Cardinality(added) = Cardinality(ps)
              /\ \A x \in ps : \E y \in added :
                    /\ y.proposal_item = x.id
                    /\ y.description = x.description
                    /\ y.quantity = x.quantity
                    /\ y.unit_price = x.unit_price
                    /\ y.line_total = x.unit_price * x.quantity]_vars

-----------------------------------------------------------------------------
(* Creating invoices from contracts: each request runs to completion *)

\* the contracts _get_contract_for_invoice can resolve for an invoice of the
\* deal (the contract_id posted, or the latest contract of the deal); 0 when
\* the deal has no contract
ContractsForInvoice(deal) ==
    LET cs == {c \in DOMAIN contracts : contracts[c].deal = deal}
    IN  IF cs = {} THEN {0} ELSE cs

\* InvoiceCreateView.form_valid(): the InvoiceForm (deal, status, ...) is
\* saved, which commits the new invoice; then, if a contract is resolved,
\* invoice.populate_from_contract(contract, clear_existing = True) runs in a
\* transaction of its own, and what it raises ends the request
InvoiceCreateFlow(deal, status, c) ==
    LET i     == Len(invoices) + 1
        inv   == [NewInvoice(deal) EXCEPT !.status = status]
        cs    == {y \in citems : y.contract = c}
        rows  == CopiedItems(iitems, i, cs)
        ok    == \/ c = 0
                 \/ /\ DealMatches(inv, contracts[c])
                    /\ \A y \in cs : InvoiceItemFullCleanOk(inv, y.description)
    IN
    /\ Len(invoices) < MaxInvoices
    /\ Cardinality(iitems) + Cardinality(cs) <= MaxItems
    /\ lastOp' = [op |-> "invoice_create", inv |-> i, ok |-> ok]
    /\ IF ok /\ c # 0
       THEN /\ iitems' = rows
            /\ invoices' = Append(invoices, InvoiceRecalculateTotals(inv, ItemsOf(rows, i)))
       ELSE /\ iitems' = iitems
            /\ invoices' = Append(invoices, inv)
    /\ UNCHANGED <<payments, contracts, citems>>
    /\ UNCHANGED <<numVars, rounding, propVars, ptx>>

\* no invoice yet; contract 1 (deal 1) with one item, contract 2 (deal 1)
\* without items, contract 3 (deal 2) with one item
FlowInit ==
    /\ NumIdle
    /\ invoices = <<>>
    /\ iitems = {}
    /\ payments = {}
    /\ contracts = <<[deal |-> 1], [deal |-> 1], [deal |-> 2]>>
    /\ citems = {ContractItemRow(1, 1, "Shoot", 3, 4000), ContractItemRow(2, 3, "Album", 1, 4000)}
    /\ proposals = <<>>
    /\ pitems = {}
    /\ lastOp = NoOp
    /\ ptx = TxIdle
    /\ catalog = InitialCatalog
    /\ rounding = "half_even"

InvoiceCreate ==
    \E deal \in {contracts[c].deal : c \in DOMAIN contracts}, status \in FormStatuses :
        \E c \in ContractsForInvoice(deal) : InvoiceCreateFlow(deal, status, c)

FlowNext ==
    \/ InvoiceCreate
    \/ ItemCreate
    \/ ItemDelete
    \/ InvoiceEdit

SpecFlow == FlowInit /\ [][FlowNext]_vars

\* C19: a pipeline operation that ends in a rejection leaves every stored
\* document, item and payment as it was before the attempt (a population
\* that fails undoes its own writes, and an invoice creation whose population
\* is rejected leaves no new invoice).
C19_RejectionChangesNothing ==
    [][lastOp'.ok = FALSE =>
          /\ invoices' = invoices
          /\ iitems' = iitems
          /\ payments' = payments
          /\ contracts' = contracts
          /\ citems' = citems
          /\ proposals' = proposals
          /\ pitems' = pitems]_vars

-----------------------------------------------------------------------------
(* recalculate_totals() called on its own, on a stored document whose     *)
(* totals may or may not agree with its items                              *)

\* invoice.recalculate_totals(save = True); `again` records that the call
\* before this one was the same call on the same invoice
InvoiceRecalculate(i) ==
    /\ invoices' = [invoices EXCEPT ![i] = InvoiceRecalculateTotals(@, ItemsOf(iitems, i))]
    /\ lastOp' = [op |-> "invoice_recalculate", inv |-> i, ok |-> TRUE,
                  again |-> lastOp.op = "invoice_recalculate" /\ lastOp.inv = i]
    /\ UNCHANGED <<iitems, payments, contracts, citems>>
    /\ UNCHANGED <<numVars, rounding, propVars, ptx>>

\* proposal.recalculate_totals(save = True)
ProposalRecalculate(p) ==
    /\ proposals' = [proposals EXCEPT ![p] =
                        ProposalRecalculateTotals(@, ProposalItemsOf(pitems, p))]
    /\ lastOp' = [op |-> "proposal_recalculate", inv |-> p, ok |-> TRUE,
                  again |-> lastOp.op = "proposal_recalculate" /\ lastOp.inv = p]
    /\ UNCHANGED <<pitems, invoices, iitems, payments, contracts, citems>>
    /\ UNCHANGED <<numVars, rounding, ptx, catalog>>

\* either one draft invoice without items or one proposal without items
RecalcInit ==
    /\ NumIdle
    /\ \/ invoices = <<NewInvoice(1)>> /\ proposals = <<>>
       \/ invoices = <<>> /\ proposals = <<NewProposal>>
    /\ iitems = {}
    /\ payments = {}
    /\ contracts = <<>>
    /\ citems = {}
    /\ pitems = {}
    /\ lastOp = NoOp
    /\ ptx = TxIdle
    /\ catalog = InitialCatalog
    /\ rounding = "half_even"

InvoiceRecalc == \E i \in InvoiceIds : InvoiceRecalculate(i)

ProposalRecalc == \E p \in ProposalIds : ProposalRecalculate(p)

RecalcNext ==
    \/ ItemCreate
    \/ ItemDelete
    \/ InvoiceEdit
    \/ InvoiceRecalc
    \/ PItemCreate
    \/ PItemDelete
    \/ ProposalAdminEdit
    \/ ProposalRecalc

SpecRecalc == RecalcInit /\ [][RecalcNext]_vars

\* C20: a recalculate_totals() that directly follows a recalculate_totals()
\* on the same proposal or invoice, with nothing changed in between, stores
\* the subtotal, tax and total the first call stored.
C20_RecalculateIdempotent ==
    [][(lastOp'.op \in {"invoice_recalculate", "proposal_recalculate"} /\ lastOp'.again) =>
          (invoices' = invoices /\ proposals' = proposals)]_vars

\* a second recalculation in a row of a proposal with items, a discount and
\* a positive total
C20_Witness ==
    /\ lastOp.op = "proposal_recalculate"
    /\ lastOp.again
    /\ ProposalItemsOf(pitems, lastOp.inv) # {}
    /\ proposals[lastOp.inv].discount > 0
    /\ proposals[lastOp.inv].total > 0

-----------------------------------------------------------------------------
(* Proposal items and the catalog entries they reference *)

\* ProposalItem.service / ProposalItem.package, on_delete = SET_NULL: what the
\* deletion of a catalog entry does to the ProposalItem rows (0 is NULL)
CatalogSetNull(rows, f, k) ==
    {IF x[f] = k THEN [x EXCEPT ![f] = 0] ELSE x : x \in rows}

\* a Service deleted through ServiceAdmin
ServiceDelete(k) ==
    /\ k \in DOMAIN catalog.services
    /\ catalog' = [catalog EXCEPT !.services = [j \in DOMAIN @ \ {k} |-> @[j]]]
    /\ pitems' = CatalogSetNull(pitems, "service", k)
    /\ lastOp' = [op |-> "service_delete", inv |-> 0, ok |-> TRUE]
    /\ UNCHANGED <<proposals, invoices, iitems, payments, contracts, citems>>
    /\ UNCHANGED <<numVars, rounding, ptx>>

\* a Package deleted through PackageAdmin
PackageDelete(k) ==
    /\ k \in DOMAIN catalog.packages
    /\ catalog' = [catalog EXCEPT !.packages = [j \in DOMAIN @ \ {k} |-> @[j]]]
    /\ pitems' = CatalogSetNull(pitems, "package", k)
    /\ lastOp' = [op |-> "package_delete", inv |-> 0, ok |-> TRUE]
    /\ UNCHANGED <<proposals, invoices, iitems, payments, contracts, citems>>
    /\ UNCHANGED <<numVars, rounding, ptx>>

ServiceRemove == \E k \in DOMAIN catalog.services : ServiceDelete(k)

PackageRemove == \E k \in DOMAIN catalog.packages : PackageDelete(k)

CatalogNext ==
    \/ PItemCreate
    \/ PItemUpdate
    \/ PItemDelete
    \/ ServiceRemove
    \/ PackageRemove

SpecCatalog == PropInit /\ [][CatalogNext]_vars

\* the two rules of a proposal item: exactly one of service and package, and
\* for the service named other a description and a positive unit price
ProposalItemRules(x) ==
    /\ (x.service # 0) # (x.package # 0)
    /\ (x.service # 0 /\ x.service \in DOMAIN catalog.services
          /\ catalog.services[x.service].name = "other") =>
          (x.description # "" /\ x.unit_price > 0)

\* C21: every stored ProposalItem references exactly one of Service and
\* Package, and one referencing the service other has a description and a
\* positive unit price; a save whose input breaks either rule writes nothing
\* and leaves the proposal's totals as they were.
C21_ExactlyOneCatalogEntry ==
    /\ \A x \in pitems : ProposalItemRules(x)
    /\ \A p \in ProposalIds, old \in {{}} \cup {{x} : x \in pitems}, in \in ItemInputs :
           ~ProposalItemRules(in) =>
               ~ENABLED (/\ ProposalItemSave(p, old, in)
                         /\ (lastOp'.ok \/ pitems' # pitems \/ proposals' # proposals))

-----------------------------------------------------------------------------
(* InvoiceItem.save() and InvoiceItem.delete() in transactions that run     *)
(* beside saves of the invoice.  The status check reads the invoice row as  *)
(* committed at that moment; nothing locks the row.                        *)

ItemOps == {"create", "update", "delete"}

\* an InvoiceItem of invoice i is about to be saved or deleted (admin inline,
\* shell): the instance is bound and save() / delete() is entered
ItemBegin(w) ==
    /\ ptx[w].pc = "idle"
    /\ \E i \in InvoiceIds, op \in ItemOps :
       \E id \in {0} \cup {x.id : x \in ItemsOf(iitems, i)} :
          /\ (op = "create") = (id = 0)
          /\ ptx' = [ptx EXCEPT ![w] = [NoTx EXCEPT !.pc = "check", !.op = op,
                                                 !.invoice = i, !.id = id]]
    /\ UNCHANGED <<invoices, iitems, payments, contracts, citems, lastOp>>
    /\ UNCHANGED <<numVars, rounding, propVars>>

\* clean() in save(), the status test in delete(): self.invoice is fetched
\* and its status compared with draft
ItemCheck(w) ==
    LET t  == ptx[w]
        ok == ~InvoiceItemLocked(invoices[t.invoice])
    IN
    /\ t.pc = "check"
    /\ ptx' = [ptx EXCEPT ![w] = [t EXCEPT !.pc = IF ok THEN "apply" ELSE "rejected",
                                           !.status = invoices[t.invoice].status]]
    /\ lastOp' = IF ok THEN lastOp
                 ELSE [op |-> "item_" \o t.op, inv |-> t.invoice, ok |-> FALSE]
    /\ UNCHANGED <<invoices, iitems, payments, contracts, citems>>
    /\ UNCHANGED <<numVars, rounding, propVars>>

\* the rest of save() / delete(): the row is written or removed, the
\* invoice's totals are recalculated and the atomic block commits.  A save of
\* a row that is gone inserts it again; a delete of such a row removes nothing
ItemApply(w) ==
    LET t    == ptx[w]
        i    == t.invoice
        id   == IF t.op = "create" THEN FreeId(iitems, MaxItems) ELSE t.id
        kept == {x \in iitems : x.id # id}
    IN
    /\ t.pc = "apply"
    /\ id # 0
    /\ \E desc \in Descriptions, qty \in Quantities, unit \in UnitPrices, rate \in TaxRates :
          LET rows == IF t.op = "delete" THEN kept
                      ELSE kept \cup {InvoiceItemRow(id, i, desc, qty, unit, rate)}
          IN  /\ iitems' = rows
              /\ invoices' = [invoices EXCEPT ![i] =
                                 InvoiceRecalculateTotals(@, ItemsOf(rows, i))]
    /\ ptx' = [ptx EXCEPT ![w] = [t EXCEPT !.pc = "done", !.id = id]]
    /\ lastOp' = [op |-> "item_" \o t.op, inv |-> i, ok |-> TRUE]
    /\ UNCHANGED <<payments, contracts, citems>>
    /\ UNCHANGED <<numVars, rounding, propVars>>

LockNext ==
    \/ \E w \in Writers : ItemBegin(w)
    \/ \E w \in Writers : ItemCheck(w)
    \/ \E w \in Writers : ItemApply(w)
    \/ InvoiceEdit

SpecLock == Init /\ [][LockNext]_vars

\* C27: the items of an invoice change only in a step that starts with the
\* invoice in draft: an item create, update or delete that comes after the
\* committed move of its invoice out of draft has no effect, also when it
\* read the status before that move.
C27_LockUnderInterleaving ==
    [][lastOp'.op \in {"item_save", "item_create", "item_update", "item_delete"} =>
          \A i \in InvoiceIds :
              ItemsOf(iitems', i) # ItemsOf(iitems, i) => invoices[i].status = "draft"]_vars

-----------------------------------------------------------------------------
(* Invoice items whose tax has a fraction of a cent, on either kind of      *)
(* database                                                                 *)

FineQuantities == {1, 3}
FineUnitPrices == {1005, 4000}
FineTaxRates == {500, 1000}

\* one draft invoice without items, in a database of either kind
FineInit ==
    /\ NumIdle
    /\ rounding \in Roundings
    /\ invoices = <<NewInvoice(1)>>
    /\ iitems = {}
    /\ payments = {}
    /\ contracts = <<>>
    /\ citems = {}
    /\ proposals = <<>>
    /\ pitems = {}
    /\ lastOp = NoOp
    /\ ptx = TxIdle
    /\ catalog = InitialCatalog

FineItemCreate ==
    \E i \in InvoiceIds, qty \in FineQuantities, unit \in FineUnitPrices, rate \in FineTaxRates :
        InvoiceItemSave(i, {}, "Shoot", qty, unit, rate)

FineItemUpdate ==
    \E x \in iitems, qty \in FineQuantities, unit \in FineUnitPrices, rate \in FineTaxRates :
        InvoiceItemSave(x.invoice, {x}, "Shoot", qty, unit, rate)

FineNext ==
    \/ FineItemCreate
    \/ FineItemUpdate
    \/ ItemDelete

SpecFine == FineInit /\ [][FineNext]_vars

\* C30: every stored InvoiceItem has line_subtotal = unit_price x quantity,
\* tax_amount = line_subtotal x tax_rate / 100 to the cent and line_total =
\* line_subtotal + tax_amount; quantity 3 at 40.00 with tax_rate 5.00 is stored
\* as 120.00, 6.00 and 126.00, and an invoice holding only that item has
\* total 126.00.
C30_ItemAmounts ==
    /\ \A x \in iitems :
          LET exact == x.line_subtotal * x.tax_rate
          IN  /\ x.line_subtotal = x.unit_price * x.quantity
              /\ 2 * (x.tax_amount * 10000 - exact) <= 10000
              /\ 2 * (exact - x.tax_amount * 10000) <= 10000
              /\ x.line_total = x.line_subtotal + x.tax_amount
    /\ \A x \in iitems :
          (x.quantity = 3 /\ x.unit_price = 4000 /\ x.tax_rate = 500) =>
              /\ x.line_subtotal = 12000 /\ x.tax_amount = 600 /\ x.line_total = 12600
              /\ ItemsOf(iitems, x.invoice) = {x} => invoices[x.invoice].total = 12600

====
